---- MODULE Spec2Model ----
(***************************************************************************)
(* Gee-RPC: one client connection (Client, part_003), the server side of   *)
(* that connection (gee-rpc/server.go, service.go in part_001) and the     *)
(* static discovery (MultiServersDiscovery, part_000).                     *)
(*                                                                         *)
(* Three specifications share the variables:                               *)
(*   Spec        a Client and the server of its connection                 *)
(*   SpecServer  the server of one connection fed by a raw peer            *)
(*   SpecDisc    a MultiServersDiscovery under Get and Update              *)
(*   SpecAvail   Spec with callers of IsAvailable                          *)
(*   SpecReg     a Server under Register and findService                   *)
(*   SpecConn    SpecServer from the first message of the connection on    *)
(*   SpecServerFair  SpecServer with the server's goroutines scheduled     *)
(*   SpecLocks   SpecAvail with terminateCalls taking its locks one by one *)
(*   SpecDial    a call of Dial or DialHTTP up to its return                *)
(***************************************************************************)
EXTENDS Integers, Sequences, FiniteSets, TLC

\* ------------------------------------------------------------------ bounds
MaxCalls == 2       \* Call objects created on the Client (Spec)
MaxReqs == 2        \* request frames written by the raw peer (SpecServer)
MaxArg == 2         \* Args{a, a*a} for a in 1..MaxArg
SharedCap == 1      \* capacity of the caller-supplied buffered done channel
MaxServers == 3     \* longest server list given to the discovery
MaxInitIndex == 4   \* initial round-robin index drawn from 0..MaxInitIndex
MaxRegs == 3        \* calls of Register (SpecReg)

\* ------------------------------------------------------- program constants
GoDoneCap == 10     \* make(chan *Call, 10) in Go when done == nil
CallDoneCap == 1    \* make(chan *Call, 1) in Call
FirstSeq == 1       \* seq: 1 in newClientCodec

VARIABLES
    \* client (part_003)
    calls,      \* Call objects and the goroutine that issued each
    seq,        \* Client.seq
    pending,    \* Client.pending: Seq -> call id
    sending,    \* Client.sending: set of holders
    mu,         \* Client.mu: set of holders
    closing,    \* Client.closing
    shutdown,   \* Client.shutdown
    rcv,        \* the receive goroutine
    doneCh,     \* the Done channels: channel id -> queue of call ids
    closeRet,   \* what the calls of Close returned, in order
    avail,      \* what the latest IsAvailable returned, <<>> before the first
    \* the connection
    cliOpen,    \* the client's end is open
    srvOpen,    \* the server's end is open
    c2s,        \* request stream, client to server
    s2c,        \* response stream, server to client
    \* server (gee-rpc/server.go)
    srv,        \* serveCodec's loop
    hs,         \* handleRequest goroutines, in spawn order
    srvSending, \* serveCodec's sending mutex: set of holders
    inWrite,    \* who is inside cc.Write
    rawSent,    \* request frames the raw peer has written
    serviceMap, \* Server.serviceMap: service name -> service
    regs,       \* the calls of Register, in order of their newService
    found,      \* the latest findService: its argument and what it returned
    \* discovery (part_000)
    servers,    \* MultiServersDiscovery.servers
    index,      \* MultiServersDiscovery.index
    window,     \* addresses of the latest round-robin Gets since the last Update
    lastGet,    \* result of the latest Get
    \* Dial (part_003)
    dial        \* a call of dialTimeout and its construction goroutine

cvars == <<calls, seq, pending, sending, mu, closing, shutdown, rcv, doneCh, closeRet, avail>>
nvars == <<cliOpen, srvOpen, c2s, s2c>>
svars == <<srv, hs, srvSending, inWrite>>
dvars == <<servers, index, window, lastGet>>
rvars == <<serviceMap, regs, found>>
vars == <<cvars, nvars, svars, rawSent, dvars, rvars, dial>>

\* ----------------------------------------------------------------- helpers
NoErr == <<>>
Last(s) == s[Len(s)]
Range(s) == {s[i] : i \in 1..Len(s)}

\* strings.LastIndex(s, "."), 1-based; 0 when there is none
RECURSIVE LastIndexFrom(_, _)
LastIndexFrom(s, i) ==
    IF i = 0 THEN 0
    ELSE IF s[i] = "." THEN i
    ELSE LastIndexFrom(s, i - 1)
\* strings.Index in place of strings.LastIndex
FirstIndex(s) ==
    IF \E i \in 1..Len(s) : s[i] = "."
    THEN CHOOSE i \in 1..Len(s) : s[i] = "." /\ \A j \in 1..(i - 1) : s[j] # "."
    ELSE 0

LastIndex(s) == LastIndexFrom(s, Len(s))

\* ------------------------------------------------------------- the services
\* A reflect.Type as far as registerMethods looks at it: Name() ("" for an
\* unnamed type such as a pointer), whether that name starts with an upper
\* case letter, PkgPath() ("" for built-in and unnamed types) and, for a
\* pointer type, the type pointed to.
NamedType(name, upper, pkg) == [name |-> name, upper |-> upper, pkg |-> pkg, elem |-> <<>>]
PtrTo(t) == [name |-> "", upper |-> FALSE, pkg |-> "", elem |-> <<t>>]
IntType == NamedType("int", FALSE, "")
ArgsType == NamedType("Args", TRUE, "main")
HiddenType == NamedType("hidden", FALSE, "main")
ErrorType == NamedType("error", FALSE, "")

\* a method of a receiver type: its name, the parameters after the receiver
\* and the results
Method(name, upper, ins, outs) == [name |-> name, upper |-> upper, ins |-> ins, outs |-> outs]
Plain(name, upper) == Method(name, upper, <<ArgsType, PtrTo(IntType)>>, <<ErrorType>>)

\* type Foo of the tests and demos: Sum, the unexported sum, Sleep; Fail
\* stands for a method that returns a non-nil error
Foo == <<"Foo">>
FooMethods == {Plain(<<"Sum">>, TRUE), Plain(<<"sum">>, FALSE),
               Plain(<<"Sleep">>, TRUE), Plain(<<"Fail">>, TRUE)}
FooRcvr == [name |-> Foo, upper |-> TRUE, pkg |-> "main", methods |-> FooMethods]

\* isExportedOrBuiltinType: ast.IsExported(t.Name()) || t.PkgPath() == ""
isExportedOrBuiltinType(t) == t.upper \/ t.pkg = ""

\* registerMethods: typ.NumMethod() counts the exported methods; of those,
\* the ones that pass the three tests
registerMethods(rcvr) ==
    {m \in rcvr.methods :
        /\ m.upper
        /\ ~(Len(m.ins) + 1 # 3 \/ Len(m.outs) # 1)
        /\ ~(m.outs[1] # ErrorType)
        /\ ~(~isExportedOrBuiltinType(m.ins[1]) \/ ~isExportedOrBuiltinType(m.ins[2]))}

\* newReplyv: reflect.New(m.ReplyType.Elem()); Elem() of a type that is not
\* a pointer (nor another type with elements) panics
newReplyvPanics(replyType) == replyType.elem = <<>>

\* newService: the service of a receiver, each method with numCalls 0
newService(rcvr) ==
    [name |-> rcvr.name, rcvr |-> rcvr,
     method |-> [n \in {m.name : m \in registerMethods(rcvr)} |-> [numCalls |-> 0]]]

\* a Store in place of LoadOrStore: the later registration replaces the first
StoreAlways(m, key, value) ==
    [k \in DOMAIN m \cup {key} |-> IF k = key THEN value ELSE m[k]]

\* sync.Map.LoadOrStore(key, value): the map afterwards
EmptyMap == [k \in {} |-> 0]
LoadOrStore(m, key, value) ==
    IF key \in DOMAIN m THEN m ELSE [k \in DOMAIN m \cup {key} |-> IF k = key THEN value ELSE m[k]]

\* the registered services and the names of their methods
ServiceMap == [s \in DOMAIN serviceMap |-> DOMAIN serviceMap[s].method]

ErrIllFormed(sm) == <<"rpc server: service/method request ill-formed:">> \o sm
ErrNoService(name) == <<"rpc server: can't find service ">> \o name
ErrNoMethod(name) == <<"rpc server: can't find method ">> \o name
ErrReadBody == <<"gob: type mismatch">>
ErrMethod == <<"method failed">>

\* findService: svc and mtype are <<>> when nil
findService(sm) ==
    LET dot == LastIndex(sm) IN
    IF dot = 0
    THEN [svc |-> <<>>, mtype |-> <<>>, err |-> ErrIllFormed(sm)]
    ELSE LET serviceName == SubSeq(sm, 1, dot - 1)
             methodName == SubSeq(sm, dot + 1, Len(sm))
         IN IF serviceName \notin DOMAIN ServiceMap
            THEN [svc |-> <<>>, mtype |-> <<>>, err |-> ErrNoService(serviceName)]
            ELSE IF methodName \notin ServiceMap[serviceName]
            THEN [svc |-> serviceName, mtype |-> <<>>, err |-> ErrNoMethod(methodName)]
            ELSE [svc |-> serviceName, mtype |-> methodName, err |-> NoErr]

\* Foo.Sum: *reply = args.Num1 + args.Num2 with Args{a, a*a}
Sum(a) == a + a * a

\* a call that does not count itself
AddNothing(sm, svc, mtype) == sm

\* atomic.AddUint64(&m.numCalls, 1) on the method of a service
AddNumCalls(sm, svc, mtype) ==
    [sm EXCEPT ![svc].method[mtype].numCalls = @ + 1]

\* Foo.Sleep: time.Sleep(time.Second * time.Duration(args.Num1)); the seconds
\* an invocation of the method lasts at least
Elapsed(mtype, a) == IF mtype = <<"Sleep">> THEN a ELSE 0

\* service.call's outcome for a method on argument a
Invoke(mtype, a) ==
    IF mtype \in {<<"Sum">>, <<"Sleep">>} THEN [reply |-> Sum(a), err |-> NoErr]
    ELSE [reply |-> 0, err |-> ErrMethod]

\* ------------------------------------------------------------- registration
\* The receivers handed to Register: Foo; a type of another package with the
\* same name; Bar, with methods of every shape registerMethods tells apart;
\* and a type whose name is not exported.
Bar == <<"Bar">>
BarMethods ==
    {Plain(<<"Sum">>, TRUE), Plain(<<"sum">>, FALSE),
     Method(<<"OneIn">>, TRUE, <<ArgsType>>, <<ErrorType>>),
     Method(<<"ThreeIn">>, TRUE, <<ArgsType, ArgsType, PtrTo(IntType)>>, <<ErrorType>>),
     Method(<<"NoOut">>, TRUE, <<ArgsType, PtrTo(IntType)>>, <<>>),
     Method(<<"TwoOut">>, TRUE, <<ArgsType, PtrTo(IntType)>>, <<IntType, ErrorType>>),
     Method(<<"IntOut">>, TRUE, <<ArgsType, PtrTo(IntType)>>, <<IntType>>),
     Method(<<"HiddenArg">>, TRUE, <<HiddenType, PtrTo(IntType)>>, <<ErrorType>>),
     Method(<<"HiddenReply">>, TRUE, <<ArgsType, HiddenType>>, <<ErrorType>>),
     Method(<<"IntReply">>, TRUE, <<ArgsType, IntType>>, <<ErrorType>>),
     Method(<<"PtrArg">>, TRUE, <<PtrTo(ArgsType), PtrTo(ArgsType)>>, <<ErrorType>>),
     Method(<<"PtrHidden">>, TRUE, <<ArgsType, PtrTo(HiddenType)>>, <<ErrorType>>)}
Receivers ==
    {FooRcvr,
     [name |-> Foo, upper |-> TRUE, pkg |-> "lib", methods |-> {Plain(<<"Sum">>, TRUE)}],
     [name |-> Bar, upper |-> TRUE, pkg |-> "main", methods |-> BarMethods],
     [name |-> <<"foo">>, upper |-> FALSE, pkg |-> "main", methods |-> {Plain(<<"Sum">>, TRUE)}]}

ErrDup(name) == <<"rpc: service already defined">> \o name

\* newService's log.Fatalf has ended the process
Fatal == \E i \in 1..Len(regs) : regs[i].pc = "fatal"

\* Register up to the return of newService(rcvr)
RegisterNew(rcvr) ==
    /\ Len(regs) < MaxRegs
    /\ regs' = Append(regs, [rcvr |-> rcvr, ret |-> NoErr,
                             pc |-> IF rcvr.upper THEN "store" ELSE "fatal"])
    /\ UNCHANGED <<serviceMap, found>>

\* Register: serviceMap.LoadOrStore(s.name, s), dup, and the return
RegisterStore(i) ==
    /\ regs[i].pc = "store"
    /\ LET s == newService(regs[i].rcvr)
           dup == s.name \in DOMAIN serviceMap
       IN /\ serviceMap' = LoadOrStore(serviceMap, s.name, s)
          /\ regs' = [regs EXCEPT ![i].pc = "done",
                                  ![i].ret = IF dup THEN ErrDup(s.name) ELSE NoErr]
    /\ UNCHANGED found

\* the names handed to findService: with no dot, with one, with two, with
\* nothing before or after the dot
FindInputs ==
    {<<"Foo", ".", "Sum">>, <<"Foo", ".", "sum">>, <<"Foo", ".", "HiddenArg">>,
     <<"Bar", ".", "Sum">>, <<"Bar", ".", "PtrHidden">>, <<"Bar", ".", "Sleep">>,
     <<"FooSum">>, <<>>, <<".">>, <<"Foo", ".">>, <<".", "Sum">>,
     <<"Foo", ".", "Bar", ".", "Sum">>, <<"Bar", ".", "Foo", ".", "Sum">>,
     <<"Foo", ".", ".", "Sum">>}

\* a call of findService
Find(sm) ==
    /\ found' = <<[sm |-> sm, res |-> findService(sm)]>>
    /\ UNCHANGED <<serviceMap, regs>>

\* ---------------------------------------------------------------- requests
SumSM == <<"Foo", ".", "Sum">>
SleepSM == <<"Foo", ".", "Sleep">>
ServiceMethods ==
    {SumSM, SleepSM, <<"Foo", ".", "Fail">>, <<"Foo", ".", "sum">>,
     <<"Bar", ".", "Sum">>, <<"FooSum">>}

\* what a caller may ask for: a method name, an argument, and whether the
\* argument has the type the method declares
Requests ==
    {[sm |-> SumSM, arg |-> a, typed |-> TRUE] : a \in 1..MaxArg}
    \cup {[sm |-> SumSM, arg |-> 1, typed |-> FALSE]}
    \cup {[sm |-> SleepSM, arg |-> a, typed |-> TRUE] : a \in 1..MaxArg}
    \cup {[sm |-> m, arg |-> 1, typed |-> TRUE] : m \in ServiceMethods \ {SumSM, SleepSM}}

HeaderItem(sm, n) == [k |-> "H", sm |-> sm, seq |-> n, arg |-> 0, typed |-> TRUE]
BodyItem(a, t) == [k |-> "B", sm |-> <<>>, seq |-> 0, arg |-> a, typed |-> t]

\* response stream items; w is the goroutine that wrote the item
RespHeader(w, n, e) == [k |-> "H", seq |-> n, err |-> e, val |-> 0, w |-> w]
RespBody(w, v) == [k |-> "B", seq |-> 0, err |-> NoErr, val |-> v, w |-> w]

\* var invalidRequest = struct{}{}: the body of an error response, a value that
\* no reply container holds
invalidRequest == -1

\* ================================================================== server
\* gee-rpc/server.go.  hs holds the requests read from the connection, in
\* order, each with the state of its handleRequest goroutine.  Writer 0 is
\* serveCodec's loop, writer i > 0 the goroutine of request i.
LoopId == 0

NewReq(h, f, e, a, t, p) ==
    [pc |-> p, seq |-> h.seq, sm |-> h.sm, err |-> e, svc |-> f.svc,
     mtype |-> f.mtype, arg |-> a, typed |-> t, reply |-> 0]

Crashed == srv.pc = "crashed"

\* a sendResponse that does not wait for the lock
SendingNeverWaits == TRUE

\* sending.Lock() in sendResponse: blocks while another goroutine holds it
SendingFree == srvSending = {}

\* cc.Write on the server's end: fails on a closed connection, may fail once
\* the peer has closed its end; what is written to a closed peer is lost
Deliver(wire, items) == IF cliOpen THEN wire \o items ELSE wire

WriteOutcomes ==
    IF ~srvOpen THEN {FALSE} ELSE IF cliOpen THEN {TRUE} ELSE {TRUE, FALSE}

\* sendResponse up to and including the header: Lock, enc.Encode(h).  A
\* failed Encode closes the codec and Write returns, so the lock is released.
PutHdr(w, item, ok) ==
    /\ SendingFree
    /\ ok \in WriteOutcomes
    /\ IF ok
       THEN /\ s2c' = Deliver(s2c, <<item>>)
            /\ srvSending' = srvSending \cup {w}
            /\ inWrite' = inWrite \cup {w}
            /\ UNCHANGED <<srvOpen, c2s>>
       ELSE /\ srvOpen' = FALSE
            /\ c2s' = <<>>
            /\ UNCHANGED <<s2c, srvSending, inWrite>>

\* the rest of sendResponse: enc.Encode(body), Unlock
PutBody(w, item, ok) ==
    /\ ok \in WriteOutcomes
    /\ s2c' = IF ok THEN Deliver(s2c, <<item>>) ELSE s2c
    /\ srvOpen' = (srvOpen /\ ok)
    /\ c2s' = IF ok THEN c2s ELSE <<>>
    /\ srvSending' = srvSending \ {w}
    /\ inWrite' = inWrite \ {w}

\* readRequest, and for a request read without error the spawn of its handler
SrvRead ==
    /\ srv.pc = "read"
    /\ \/ /\ ~srvOpen \/ (c2s = <<>> /\ ~cliOpen)
          /\ srv' = [srv EXCEPT !.pc = "wait"]
          /\ UNCHANGED <<c2s, hs>>
       \/ /\ srvOpen /\ c2s # <<>> /\ Head(c2s).k = "B"
          /\ srv' = [srv EXCEPT !.pc = "wait"]
          /\ c2s' = Tail(c2s)
          /\ UNCHANGED hs
       \/ /\ srvOpen /\ c2s # <<>> /\ Head(c2s).k = "H"
          /\ LET h == Head(c2s)
                 f == findService(h.sm)
             IN IF f.err # NoErr
                THEN /\ hs' = Append(hs, NewReq(h, f, f.err, 0, TRUE, "new"))
                     /\ c2s' = Tail(c2s)
                     /\ srv' = [srv EXCEPT !.pc = "errHdr"]
                ELSE /\ Len(c2s) >= 2
                     /\ LET b == c2s[2] IN
                        IF b.typed
                        THEN /\ hs' = Append(hs, NewReq(h, f, NoErr, b.arg, TRUE, "call"))
                             /\ srv' = srv
                        ELSE /\ hs' = Append(hs, NewReq(h, f, ErrReadBody, 0, FALSE, "new"))
                             /\ srv' = [srv EXCEPT !.pc = "errHdr"]
                     /\ c2s' = Tail(Tail(c2s))
    /\ UNCHANGED <<srvOpen, s2c, srvSending, inWrite>>

\* serveCodec, err != nil and req != nil: sendResponse(cc, req.h, invalidRequest)
\* and then, there being no continue, wg.Add(1) and go handleRequest
SrvErrHdr ==
    /\ srv.pc = "errHdr"
    /\ \E ok \in BOOLEAN :
          /\ PutHdr(LoopId, RespHeader(LoopId, Last(hs).seq, Last(hs).err), ok)
          /\ IF ok
             THEN /\ srv' = [srv EXCEPT !.pc = "errBody"]
                  /\ UNCHANGED hs
             ELSE /\ srv' = [srv EXCEPT !.pc = "read"]
                  /\ hs' = [hs EXCEPT ![Len(hs)].pc = "call"]

SrvErrBody ==
    /\ srv.pc = "errBody"
    /\ \E ok \in BOOLEAN : PutBody(LoopId, RespBody(LoopId, invalidRequest), ok)
    /\ srv' = [srv EXCEPT !.pc = "read"]
    /\ hs' = [hs EXCEPT ![Len(hs)].pc = "call"]

\* handleRequest: req.svc.call(req.mtype, req.argv, req.replyv).  With a nil
\* mtype, call dereferences it and the panic ends the server process.
HCall(i) ==
    /\ hs[i].pc = "call"
    /\ IF hs[i].mtype = <<>>
       THEN /\ srv' = [srv EXCEPT !.pc = "crashed"]
            /\ srvOpen' = FALSE
            /\ c2s' = <<>>
            /\ hs' = [hs EXCEPT ![i].pc = "panic"]
            /\ UNCHANGED serviceMap
       ELSE /\ LET r == Invoke(hs[i].mtype, IF hs[i].typed THEN hs[i].arg ELSE 0) IN
               hs' = [hs EXCEPT ![i].reply = r.reply,
                                ![i].err = IF r.err # NoErr THEN r.err ELSE @,
                                ![i].pc = IF r.err # NoErr THEN "errHdr" ELSE "repHdr"]
            /\ serviceMap' = AddNumCalls(serviceMap, hs[i].svc, hs[i].mtype)
            /\ UNCHANGED <<srv, srvOpen, c2s>>
    /\ UNCHANGED <<s2c, srvSending, inWrite>>

\* handleRequest, err != nil: sendResponse(cc, req.h, invalidRequest); there
\* is no return after it
HErrHdr(i) ==
    /\ hs[i].pc = "errHdr"
    /\ \E ok \in BOOLEAN :
          /\ PutHdr(i, RespHeader(i, hs[i].seq, hs[i].err), ok)
          /\ hs' = [hs EXCEPT ![i].pc = IF ok THEN "errBody" ELSE "repHdr"]
    /\ UNCHANGED srv

HErrBody(i) ==
    /\ hs[i].pc = "errBody"
    /\ \E ok \in BOOLEAN : PutBody(i, RespBody(i, invalidRequest), ok)
    /\ hs' = [hs EXCEPT ![i].pc = "repHdr"]
    /\ UNCHANGED srv

\* handleRequest: sendResponse(cc, req.h, req.replyv.Interface()), wg.Done()
HRepHdr(i) ==
    /\ hs[i].pc = "repHdr"
    /\ \E ok \in BOOLEAN :
          /\ PutHdr(i, RespHeader(i, hs[i].seq, hs[i].err), ok)
          /\ hs' = [hs EXCEPT ![i].pc = IF ok THEN "repBody" ELSE "done"]
    /\ UNCHANGED srv

HRepBody(i) ==
    /\ hs[i].pc = "repBody"
    /\ \E ok \in BOOLEAN : PutBody(i, RespBody(i, hs[i].reply), ok)
    /\ hs' = [hs EXCEPT ![i].pc = "done"]
    /\ UNCHANGED srv

\* a serveCodec that closes without waiting
NoWait == TRUE

\* wg.Wait() returns: every handleRequest that wg.Add(1) counted has run its
\* deferred wg.Done()
HandlersDone == \A i \in 1..Len(hs) : hs[i].pc = "done"

\* serveCodec after the loop: wg.Wait(), cc.Close()
SrvClose ==
    /\ srv.pc = "wait"
    /\ HandlersDone
    /\ srv' = [srv EXCEPT !.pc = "closed"]
    /\ srvOpen' = FALSE
    /\ c2s' = <<>>
    /\ UNCHANGED <<s2c, hs, srvSending, inWrite>>

\* ------------------------------------------------- the server, frame by frame
\* The same code with sendResponse taken as one step (Lock, Write of header
\* and body, Unlock) and service.call taken together with the sendResponse
\* that follows it.  Spec uses these steps; SpecServer the ones above.
PutFrame(w, hdr, body, ok) ==
    /\ SendingFree
    /\ ok \in WriteOutcomes
    /\ s2c' = IF ok THEN Deliver(s2c, <<hdr, body>>) ELSE s2c
    /\ srvOpen' = (srvOpen /\ ok)
    /\ c2s' = IF ok THEN c2s ELSE <<>>
    /\ UNCHANGED <<srvSending, inWrite>>

\* serveCodec's sendResponse(cc, req.h, invalidRequest, sending) and the
\* spawn of the handler that follows it
SrvErrFrame ==
    /\ srv.pc = "errHdr"
    /\ \E ok \in BOOLEAN :
          PutFrame(LoopId, RespHeader(LoopId, Last(hs).seq, Last(hs).err),
                   RespBody(LoopId, invalidRequest), ok)
    /\ srv' = [srv EXCEPT !.pc = "read"]
    /\ hs' = [hs EXCEPT ![Len(hs)].pc = "call"]

\* handleRequest up to the end of its first sendResponse
HRun(i) ==
    /\ hs[i].pc = "call"
    /\ IF hs[i].mtype = <<>>
       THEN /\ srv' = [srv EXCEPT !.pc = "crashed"]
            /\ srvOpen' = FALSE
            /\ hs' = [hs EXCEPT ![i].pc = "panic"]
            /\ c2s' = <<>>
            /\ UNCHANGED <<s2c, srvSending, inWrite, serviceMap>>
       ELSE LET r == Invoke(hs[i].mtype, IF hs[i].typed THEN hs[i].arg ELSE 0)
                e == IF r.err # NoErr THEN r.err ELSE hs[i].err
            IN /\ \E ok \in BOOLEAN :
                     PutFrame(i, RespHeader(i, hs[i].seq, e),
                              RespBody(i, IF r.err # NoErr THEN invalidRequest ELSE r.reply), ok)
               /\ hs' = [hs EXCEPT ![i].reply = r.reply, ![i].err = e,
                                   ![i].pc = IF r.err # NoErr THEN "repHdr" ELSE "done"]
               /\ serviceMap' = AddNumCalls(serviceMap, hs[i].svc, hs[i].mtype)
               /\ UNCHANGED srv

\* handleRequest's second sendResponse, reached after an error response
HRepFrame(i) ==
    /\ hs[i].pc = "repHdr"
    /\ \E ok \in BOOLEAN :
          PutFrame(i, RespHeader(i, hs[i].seq, hs[i].err), RespBody(i, hs[i].reply), ok)
    /\ hs' = [hs EXCEPT ![i].pc = "done"]
    /\ UNCHANGED srv


\* ---------------------------------------------------------------- raw peer
\* A peer that writes request frames with Seq 1, 2, ... and may close.
RawSend ==
    /\ cliOpen /\ rawSent < MaxReqs
    /\ \E r \in Requests :
          c2s' = IF srvOpen
                 THEN c2s \o <<HeaderItem(r.sm, rawSent + 1), BodyItem(r.arg, r.typed)>>
                 ELSE c2s
    /\ rawSent' = rawSent + 1
    /\ UNCHANGED <<cliOpen, srvOpen, s2c, svars>>

RawClose ==
    /\ cliOpen
    /\ cliOpen' = FALSE
    /\ UNCHANGED <<srvOpen, c2s, s2c, svars, rawSent>>

\* --------------------------------------------------------------- handshake
\* ServerConn.  The first message on a connection is the Option, JSON encoded;
\* json false stands for bytes that json.Decode rejects.  HandleTimeout is a
\* field a peer may send; server.go's Option has no such field, and
\* json.Decode drops what it does not know.
MagicNumber == 3927900
GobType == "application/gob"
JsonType == "application/json"

\* the codec types that have a constructor
NewCodecFuncMap == {GobType}

OptionItem(magic, codecType, timeout, json) ==
    [k |-> "O", magic |-> magic, codec |-> codecType, timeout |-> timeout,
     json |-> json]

DefaultOption == OptionItem(MagicNumber, GobType, 0, TRUE)

\* the timeouts a peer asks for, in seconds
MaxTimeout == 1

FirstMessages ==
    {OptionItem(MagicNumber, GobType, t, TRUE) : t \in 0..MaxTimeout}
    \cup {OptionItem(MagicNumber + 1, GobType, 0, TRUE),
          OptionItem(0, GobType, 0, TRUE),
          OptionItem(MagicNumber, JsonType, 0, TRUE),
          OptionItem(MagicNumber, "", 0, TRUE),
          OptionItem(0, "", 0, FALSE)}

\* a server that serves whatever the first message is
AnyOption(o) == TRUE

\* the three tests of ServerConn: Decode, MagicNumber, NewCodecFuncMap
ValidOption(o) ==
    /\ o.json
    /\ o.magic = MagicNumber
    /\ o.codec \in NewCodecFuncMap

\* what is left on the connection for the codec once json.NewDecoder(conn)
\* has decoded the Option: the decoder reads ahead into its own buffer, so
\* request bytes that had arrived with the Option may be gone
AfterOption(wire) == {SubSeq(wire, n, Len(wire)) : n \in 2..Len(wire) + 1}

ServerConn ==
    /\ srv.pc = "option"
    /\ srvOpen /\ c2s # <<>>
    /\ IF ValidOption(Head(c2s))
       THEN /\ srv' = [pc |-> "read", opt |-> Head(c2s)]
            /\ c2s' \in AfterOption(c2s)
            /\ UNCHANGED srvOpen
       ELSE /\ srv' = [pc |-> "closed", opt |-> Head(c2s)]
            /\ srvOpen' = FALSE
            /\ c2s' = <<>>
    /\ UNCHANGED <<s2c, hs, srvSending, inWrite>>

\* ================================================================== client
\* part_003.  A Call object is calls[c]; the goroutine that created it is in
\* calls[c].pc.  mode is how it was started: "Call" (synchronous, with a
\* context), or Go with done nil ("GoNil"), with the caller's buffered
\* channel ("GoShared", channel 0, shared by all such calls) or with an
\* unbuffered channel ("GoUnbuf").  Holder 0 of a lock is the receive goroutine.
RecvId == 0
Modes == {"Call", "GoNil", "GoShared", "GoUnbuf"}

ErrShutdown == <<"connection is shut down">>
ErrCtx == <<"rpc client:", "context canceled">>
ErrWrite == <<"write: broken pipe">>
ErrEOF == <<"EOF">>
ErrClosed == <<"use of closed network connection">>
ErrReading(e) == <<"reading body ">> \o e

\* the channel a call signals on, and cap() of it
ChanOf(c, mode) == IF mode = "GoShared" THEN 0 ELSE c
CapOf(mode) ==
    CASE mode = "Call" -> CallDoneCap
      [] mode = "GoNil" -> GoDoneCap
      [] mode = "GoShared" -> SharedCap
      [] OTHER -> 0

\* a Go that lets an unbuffered channel through
GoNeverPanics(mode) == FALSE

\* Go: cap(done) == 0 on a non-nil channel is log.Panic
GoPanics(mode) == mode # "GoNil" /\ CapOf(mode) = 0

\* call.done(): call.Done <- call, which blocks while the buffer is full
CanDone(c) == Len(doneCh[calls[c].ch]) < CapOf(calls[c].mode)
Signal(ch, c) == [ch EXCEPT ![calls[c].ch] = Append(@, c)]

\* a registerCall that tests one flag only
OnlyShutdown == shutdown
OnlyClosing == closing

\* registerCall's test
Unavailable == closing \/ shutdown

\* a registerCall that forgets client.seq++
SameSeq(n) == n

\* registerCall: client.seq++
NextSeq(n) == n + 1

\* a removeCall that returns whatever call is pending, that deletes nothing
LookupAny(p, n) == IF DOMAIN p = {} THEN 0 ELSE p[CHOOSE s \in DOMAIN p : TRUE]
WithoutNothing(p, n) == p
KeepEntry(p, n) == p

\* a removeCall that never finds the call
LookupNone(p, n) == 0

\* removeCall: call := client.pending[seq] (0 for nil), delete(client.pending, seq)
Lookup(p, n) == IF n \in DOMAIN p THEN p[n] ELSE 0
Without(p, n) == [s \in DOMAIN p \ {n} |-> p[s]]

\* Call, case <-ctx.Done(): client.removeCall(call.Seq)
CancelRemove(p, n) == Without(p, n)

\* a send that does not wait for the lock
SendNeverWaits == TRUE

\* client.sending.Lock() in send: blocks while another goroutine holds it
CanSend == sending = {}

NewCall(mode, r, c, p, n, e) ==
    [pc |-> p, mode |-> mode, sm |-> r.sm, arg |-> r.arg, typed |-> r.typed,
     ch |-> ChanOf(c, mode), Seq |-> n, reply |-> 0, err |-> e, ret |-> NoErr,
     \* history: values sent on Done for this call; its entry was deleted by
     \* Call's cancellation; it was created after a Call had returned cancelled
     nDone |-> 0, unreg |-> FALSE,
     late |-> \E d \in 1..Len(calls) : calls[d].pc = "returned" /\ calls[d].ret = ErrCtx]

\* Go (also the Go inside Call) up to the end of registerCall: the capacity
\* test, sending.Lock(), registerCall; on ErrShutdown also call.done()
Go(mode, r) ==
    /\ Len(calls) < MaxCalls
    /\ LET c == Len(calls) + 1 IN
       IF GoPanics(mode)
       THEN /\ calls' = Append(calls, NewCall(mode, r, c, "panicked", 0, NoErr))
            /\ UNCHANGED <<seq, pending, sending, doneCh>>
       ELSE /\ CanSend /\ mu = {}
            /\ IF Unavailable
               THEN /\ UNCHANGED <<seq, pending>>
                    /\ IF Len(doneCh[ChanOf(c, mode)]) < CapOf(mode)
                       THEN /\ calls' = Append(calls,
                                   [NewCall(mode, r, c, "wait", 0, ErrShutdown)
                                       EXCEPT !.nDone = 1])
                            /\ doneCh' = [doneCh EXCEPT ![ChanOf(c, mode)] = Append(@, c)]
                            /\ UNCHANGED sending
                       ELSE /\ calls' = Append(calls,
                                   NewCall(mode, r, c, "done", 0, ErrShutdown))
                            /\ sending' = {c}
                            /\ UNCHANGED doneCh
               ELSE /\ calls' = Append(calls, NewCall(mode, r, c, "write", seq, NoErr))
                    /\ pending' = (seq :> c) @@ pending
                    /\ seq' = NextSeq(seq)
                    /\ sending' = {c}
                    /\ UNCHANGED doneCh
    /\ UNCHANGED <<mu, closing, shutdown, rcv, closeRet, avail, nvars>>

\* the calls the callers make: Call with Foo.Sum (well and ill typed), with a
\* method that fails and with one that is not registered; Go with Foo.Sum
CallRequests ==
    {r \in Requests : r.sm \in {SumSM, <<"Foo", ".", "Fail">>, <<"Foo", ".", "sum">>}}

CallInputs ==
    {<<"Call", r>> : r \in CallRequests}
    \cup {<<m, [sm |-> SumSM, arg |-> 1, typed |-> TRUE]>> : m \in Modes \ {"Call"}}

GoAny == \E in \in CallInputs : Go(in[1], in[2])

\* cc.Write on the client's end
CliWriteOutcomes ==
    IF ~cliOpen THEN {FALSE} ELSE IF srvOpen THEN {TRUE} ELSE {TRUE, FALSE}

\* send after registerCall: cc.Write(&client.header, call.Args); on an error
\* removeCall(seq) and, for a call found there, call.Error = err, call.done()
Write(c) ==
    /\ calls[c].pc = "write"
    /\ \E ok \in CliWriteOutcomes :
          IF ok
          THEN /\ c2s' = IF srvOpen
                        THEN c2s \o <<HeaderItem(calls[c].sm, calls[c].Seq),
                                      BodyItem(calls[c].arg, calls[c].typed)>>
                        ELSE c2s
               /\ calls' = [calls EXCEPT ![c].pc = "wait"]
               /\ sending' = sending \ {c}
               /\ UNCHANGED <<pending, doneCh, cliOpen, s2c>>
          ELSE /\ mu = {}
               /\ cliOpen' = FALSE
               /\ s2c' = <<>>
               /\ pending' = Without(pending, calls[c].Seq)
               /\ LET d == Lookup(pending, calls[c].Seq) IN
                  IF d = 0
                  THEN /\ calls' = [calls EXCEPT ![c].pc = "wait"]
                       /\ sending' = sending \ {c}
                       /\ UNCHANGED doneCh
                  ELSE IF CanDone(d)
                  THEN /\ calls' = [calls EXCEPT ![c].pc = "wait",
                                                 ![d].err = ErrWrite,
                                                 ![d].nDone = @ + 1]
                       /\ doneCh' = Signal(doneCh, d)
                       /\ sending' = sending \ {c}
                  ELSE /\ calls' = [calls EXCEPT ![c].pc = "done", ![d].err = ErrWrite]
                       /\ UNCHANGED <<doneCh, sending>>
               /\ UNCHANGED c2s
    /\ UNCHANGED <<seq, mu, closing, shutdown, rcv, closeRet, avail, srvOpen>>

\* send blocked in call.done() with the sending lock held, then its return
SendDone(c) ==
    /\ calls[c].pc = "done"
    /\ CanDone(c)
    /\ calls' = [calls EXCEPT ![c].pc = "wait", ![c].nDone = @ + 1]
    /\ doneCh' = Signal(doneCh, c)
    /\ sending' = sending \ {c}
    /\ UNCHANGED <<seq, pending, mu, closing, shutdown, rcv, closeRet, avail, nvars>>

\* Call's select, case call := <-call.Done: return call.Error
CallDone(c) ==
    /\ calls[c].pc = "wait" /\ calls[c].mode = "Call"
    /\ doneCh[c] # <<>>
    /\ calls' = [calls EXCEPT ![c].pc = "returned", ![c].ret = calls[Head(doneCh[c])].err]
    /\ doneCh' = [doneCh EXCEPT ![c] = Tail(@)]
    /\ UNCHANGED <<seq, pending, sending, mu, closing, shutdown, rcv, closeRet, avail, nvars>>

\* Call's select, case <-ctx.Done(): removeCall(call.Seq), return the error
CallCancel(c) ==
    /\ calls[c].pc = "wait" /\ calls[c].mode = "Call"
    /\ mu = {}
    /\ pending' = CancelRemove(pending, calls[c].Seq)
    /\ calls' = [calls EXCEPT ![c].pc = "returned", ![c].ret = ErrCtx,
                              ![c].unreg = Lookup(pending, calls[c].Seq) = c]
    /\ UNCHANGED <<seq, sending, mu, closing, shutdown, rcv, doneCh, closeRet, avail, nvars>>

\* the caller of Go receives from the done channel it passed (or got)
GoRecv(c) ==
    /\ calls[c].pc = "wait" /\ calls[c].mode # "Call"
    /\ doneCh[calls[c].ch] # <<>>
    /\ calls' = [calls EXCEPT ![c].pc = "returned",
                              ![c].ret = calls[Head(doneCh[calls[c].ch])].err]
    /\ doneCh' = [doneCh EXCEPT ![calls[c].ch] = Tail(@)]
    /\ UNCHANGED <<seq, pending, sending, mu, closing, shutdown, rcv, closeRet, avail, nvars>>

\* Close
MaxClose == 2
Close ==
    /\ Len(closeRet) < MaxClose
    /\ mu = {}
    /\ IF closing
       THEN /\ closeRet' = Append(closeRet, ErrShutdown)
            /\ UNCHANGED <<closing, cliOpen, s2c>>
       ELSE /\ closing' = TRUE
            /\ closeRet' = Append(closeRet, IF cliOpen THEN NoErr ELSE ErrClosed)
            /\ cliOpen' = FALSE
            /\ s2c' = <<>>
    /\ UNCHANGED <<calls, seq, pending, sending, mu, shutdown, rcv, doneCh, avail,
                   srvOpen, c2s>>

\* a caller that only clears one of the two flags
AvailableIfNotClosing == ~closing

\* IsAvailable: mu.Lock(), return !client.shutdown && !client.closing
Available == ~shutdown /\ ~closing

IsAvailable ==
    /\ mu = {}
    /\ avail' = <<Available>>
    /\ UNCHANGED <<calls, seq, pending, sending, mu, closing, shutdown, rcv, doneCh,
                   closeRet, nvars>>

\* receive: cc.ReadHeader(&h) and removeCall(h.Seq)
RecvHeader ==
    /\ rcv.pc = "header"
    /\ \/ /\ ~cliOpen
          /\ rcv' = [rcv EXCEPT !.pc = "term", !.err = ErrClosed]
          /\ UNCHANGED <<s2c, pending>>
       \/ /\ cliOpen /\ s2c = <<>> /\ ~srvOpen
          /\ rcv' = [rcv EXCEPT !.pc = "term", !.err = ErrEOF]
          /\ UNCHANGED <<s2c, pending>>
       \/ /\ cliOpen /\ s2c # <<>> /\ Head(s2c).k = "B"
          /\ rcv' = [rcv EXCEPT !.pc = "term", !.err = ErrReadBody]
          /\ s2c' = Tail(s2c)
          /\ UNCHANGED pending
       \/ /\ cliOpen /\ s2c # <<>> /\ Head(s2c).k = "H"
          /\ mu = {}
          /\ rcv' = [rcv EXCEPT !.pc = "body", !.seq = Head(s2c).seq,
                                !.call = Lookup(pending, Head(s2c).seq),
                                !.herr = Head(s2c).err]
          /\ pending' = Without(pending, Head(s2c).seq)
          /\ s2c' = Tail(s2c)
    /\ UNCHANGED <<calls, seq, sending, mu, closing, shutdown, doneCh, closeRet,
                   avail, cliOpen, srvOpen, c2s>>

\* what cc.ReadBody finds: <<TRUE, value>> or <<FALSE, error>>; absent while
\* it blocks
BodyRead ==
    IF ~cliOpen THEN {<<FALSE, ErrClosed, 0>>}
    ELSE IF s2c # <<>>
    THEN IF Head(s2c).k = "B" THEN {<<TRUE, NoErr, Head(s2c).val>>}
         ELSE {<<FALSE, ErrReadBody, 0>>}
    ELSE IF ~srvOpen THEN {<<FALSE, ErrEOF, 0>>}
    ELSE {}

\* receive's switch: the three cases, each with its ReadBody and call.done()
RecvBody ==
    /\ rcv.pc = "body"
    /\ \E b \in BodyRead :
          LET c == rcv.call
              next == [rcv EXCEPT !.pc = IF b[1] THEN "header" ELSE "term",
                                  !.err = b[2], !.call = 0]
          IN /\ s2c' = IF cliOpen /\ s2c # <<>> THEN Tail(s2c) ELSE s2c
             /\ rcv' = next
             /\ IF c = 0
                THEN UNCHANGED <<calls, doneCh>>
                ELSE /\ CanDone(c)
                     /\ doneCh' = Signal(doneCh, c)
                     /\ calls' =
                          IF rcv.herr # NoErr
                          THEN [calls EXCEPT ![c].err = rcv.herr, ![c].nDone = @ + 1]
                          ELSE IF b[1]
                          THEN [calls EXCEPT ![c].reply = b[3], ![c].nDone = @ + 1]
                          ELSE [calls EXCEPT ![c].err = ErrReading(b[2]),
                                             ![c].nDone = @ + 1]
    /\ UNCHANGED <<seq, pending, sending, mu, closing, shutdown, closeRet,
                   avail, cliOpen, srvOpen, c2s>>

\* a terminateCalls that completes no call
NoPendingCalls(p) == {}

\* terminateCalls: for _, call := range client.pending
PendingCalls(p) == DOMAIN p

\* terminateCalls: sending.Lock(), mu.Lock(), shutdown = true
TermLock ==
    /\ rcv.pc = "term"
    /\ sending = {} /\ mu = {}
    /\ sending' = {RecvId}
    /\ mu' = {RecvId}
    /\ shutdown' = TRUE
    /\ rcv' = [rcv EXCEPT !.pc = "termLoop", !.todo = PendingCalls(pending)]
    /\ UNCHANGED <<calls, seq, pending, closing, doneCh, closeRet, avail, nvars>>

\* terminateCalls lock by lock.  TermLock above takes the two locks in one
\* step; here the goroutine may be holding the first while it waits for the
\* second.
MuThenSending == <<"mu", "sending">>

\* terminateCalls: client.sending.Lock(), then client.mu.Lock()
TermOrder == <<"sending", "mu">>

HeldLock(l) == IF l = "sending" THEN sending ELSE mu
TakeLock(l) ==
    IF l = "sending"
    THEN sending' = {RecvId} /\ UNCHANGED mu
    ELSE mu' = {RecvId} /\ UNCHANGED sending

TermLockFirst ==
    /\ rcv.pc = "term"
    /\ HeldLock(TermOrder[1]) = {}
    /\ TakeLock(TermOrder[1])
    /\ rcv' = [rcv EXCEPT !.pc = "termSecond"]
    /\ UNCHANGED <<calls, seq, pending, closing, shutdown, doneCh, closeRet, avail,
                   nvars>>

\* the second lock, and shutdown = true
TermLockSecond ==
    /\ rcv.pc = "termSecond"
    /\ HeldLock(TermOrder[2]) = {}
    /\ sending' = {RecvId}
    /\ mu' = {RecvId}
    /\ shutdown' = TRUE
    /\ rcv' = [rcv EXCEPT !.pc = "termLoop", !.todo = PendingCalls(pending)]
    /\ UNCHANGED <<calls, seq, pending, closing, doneCh, closeRet, avail, nvars>>

\* terminateCalls: one iteration of the range over client.pending
TermDone(n) ==
    /\ rcv.pc = "termLoop"
    /\ n \in rcv.todo
    /\ CanDone(pending[n])
    /\ calls' = [calls EXCEPT ![pending[n]].err = rcv.err, ![pending[n]].nDone = @ + 1]
    /\ doneCh' = Signal(doneCh, pending[n])
    /\ rcv' = [rcv EXCEPT !.todo = @ \ {n}]
    /\ UNCHANGED <<seq, pending, sending, mu, closing, shutdown, closeRet, avail, nvars>>

\* terminateCalls returns (the deferred Unlocks), and receive with it
TermExit ==
    /\ rcv.pc = "termLoop"
    /\ rcv.todo = {}
    /\ sending' = sending \ {RecvId}
    /\ mu' = mu \ {RecvId}
    /\ rcv' = [rcv EXCEPT !.pc = "exited"]
    /\ UNCHANGED <<calls, seq, pending, closing, shutdown, doneCh, closeRet, avail, nvars>>

\* =============================================================== discovery
\* part_000, MultiServersDiscovery.  Every method runs under d.mu, so each is
\* one step.  window keeps the addresses returned by the latest round-robin
\* Gets since the list was last replaced, at most Len(servers) of them.
Addrs == {"a", "b"}
RandomSelect == "RandomSelect"
RoundRobinSelect == "RoundRobinSelect"
SelectModes == {RandomSelect, RoundRobinSelect, "other"}

ErrNoServers == <<"rpc discovery: no available servers">>
ErrSelectMode == <<"rpc discovery: not supported select mode">>

RECURSIVE Lists(_)
Lists(n) ==
    IF n = 0 THEN {<<>>}
    ELSE Lists(n - 1) \cup {Append(l, a) : l \in {x \in Lists(n - 1) : Len(x) = n - 1}, a \in Addrs}

\* the latest n elements of s
Latest(s, n) == IF Len(s) <= n THEN s ELSE SubSeq(s, Len(s) - n + 1, Len(s))

\* a Get that leaves the index where it was
RoundRobinStuck(list, i) == i % Len(list)

\* a Get that steps the index without wrapping it
RoundRobinNoWrap(list, i) == i + 1

\* Get, case RoundRobinSelect: the element chosen and the index left behind
RoundRobinPick(list, i) == list[(i % Len(list)) + 1]
RoundRobinNext(list, i) == (i + 1) % Len(list)

Update(list) ==
    /\ servers' = list
    /\ window' = <<>>
    /\ UNCHANGED <<index, lastGet>>

\* a Get that looks at the mode before it looks at the list
ModeFirst(list, mode) ==
    IF mode \notin {RandomSelect, RoundRobinSelect} THEN ErrSelectMode
    ELSE IF Len(list) = 0 THEN ErrNoServers
    ELSE NoErr

\* the error Get returns: n == 0 first, then the default case of the switch
GetError(list, mode) ==
    IF Len(list) = 0 THEN ErrNoServers
    ELSE IF mode \notin {RandomSelect, RoundRobinSelect} THEN ErrSelectMode
    ELSE NoErr

\* what a Get was asked and what it returned; tick tells one Get from the next
GetResult(mode, addr, err) ==
    [mode |-> mode, addr |-> addr, err |-> err, tick |-> ~lastGet.tick]

Get(mode) ==
    LET n == Len(servers) IN
    IF GetError(servers, mode) # NoErr
    THEN /\ lastGet' = GetResult(mode, "", GetError(servers, mode))
         /\ UNCHANGED <<servers, index, window>>
    ELSE CASE mode = RandomSelect ->
                 /\ \E r \in 0..(n - 1) :
                       lastGet' = GetResult(mode, servers[r + 1], NoErr)
                 /\ UNCHANGED <<servers, index, window>>
           [] mode = RoundRobinSelect ->
                 /\ lastGet' = GetResult(mode, RoundRobinPick(servers, index), NoErr)
                 /\ index' = RoundRobinNext(servers, index)
                 /\ window' = Latest(Append(window, RoundRobinPick(servers, index)), n)
                 /\ UNCHANGED servers

InitDisc ==
    /\ servers \in Lists(MaxServers)
    /\ index \in 0..MaxInitIndex
    /\ window = <<>>
    /\ lastGet = [mode |-> "", addr |-> "", err |-> NoErr, tick |-> FALSE]

\* ------------------------------------------------------ Dial (part_003)
\* an *Option a caller passes: CodecType and ConnectTimeout in seconds
DialOption(codecType, connect) ==
    [nil |-> FALSE, codec |-> codecType, connect |-> connect]

NilOption == [nil |-> TRUE, codec |-> "", connect |-> 0]

\* the opts... of a call: none, one (nil or not), two
DialArgs ==
    LET Options == {NilOption} \cup
                   {DialOption(c, t) : c \in {"", GobType, JsonType},
                                       t \in 0..MaxTimeout}
    IN {<<>>} \cup {<<o>> : o \in Options}
              \cup {<<o, DialOption("", 0)>> : o \in Options}

\* dflt is DefaultOption.ConnectTimeout
parseOptions(opts, dflt) ==
    IF Len(opts) = 0 \/ opts[1].nil
    THEN [opt |-> DialOption(DefaultOption.codec, dflt), err |-> NoErr]
    ELSE IF Len(opts) # 1
    THEN [opt |-> NilOption, err |-> <<"number of options is more than 1">>]
    ELSE [opt |-> DialOption(IF opts[1].codec = "" THEN DefaultOption.codec
                                                   ELSE opts[1].codec,
                             opts[1].connect),
          err |-> NoErr]

clientResult(client, err) == [client |-> client, err |-> err]

ErrConnectTimeout(d) == <<"rpc client: connect timeout: expect within", d>>

\* a dialTimeout that leaves the connection to its caller
NeverClose(err) == FALSE

\* the deferred function of dialTimeout closes conn when err != nil
CloseOnError(err) == err # NoErr

\* parseOptions, net.DialTimeout, and the go statement that starts f
DialConnect ==
    /\ dial.pc = "start"
    /\ LET p == parseOptions(dial.opts, dial.dflt) IN
       IF p.err # NoErr
       THEN dial' = [dial EXCEPT !.pc = "returned",
                                 !.ret = clientResult(FALSE, p.err)]
       ELSE \E ok \in BOOLEAN :
            dial' = IF ok
                    THEN [dial EXCEPT !.pc = "wait", !.opt = p.opt,
                                      !.conn = "open",
                                      !.task = IF dial.f = "NewHTTPClient"
                                               THEN "http" ELSE "new"]
                    ELSE [dial EXCEPT !.pc = "returned", !.opt = p.opt,
                                      !.ret = clientResult(FALSE,
                                                  <<"dial: connection refused">>)]

\* the CONNECT request and http.ReadResponse; a closed connection gives an
\* error, an open one may never answer (the step is not taken)
NewHTTPClient ==
    /\ dial.task = "http"
    /\ \E resp \in IF dial.conn = "open" THEN {"connected", "status", "error"}
                                         ELSE {"error"} :
        dial' = CASE resp = "connected" -> [dial EXCEPT !.task = "new"]
                  [] resp = "status" ->
                        [dial EXCEPT !.task = "ready",
                                     !.res = clientResult(FALSE,
                                                 <<"unexpected HTTP response">>)]
                  [] OTHER ->
                        [dial EXCEPT !.task = "ready",
                                     !.res = clientResult(FALSE,
                                                 IF dial.conn = "open"
                                                 THEN ErrEOF ELSE ErrClosed)]

\* NewClient up to its return: the codec constructor is looked up, the
\* Option is encoded onto conn (and conn closed when that fails), the client
\* is built
NewClient ==
    /\ dial.task = "new"
    /\ IF dial.opt.codec \notin NewCodecFuncMap
       THEN dial' = [dial EXCEPT !.task = "ready",
                                 !.res = clientResult(FALSE,
                                             <<"invalid codec type", dial.opt.codec>>)]
       ELSE \E ok \in IF dial.conn = "open" THEN BOOLEAN ELSE {FALSE} :
            dial' = IF ok
                    THEN [dial EXCEPT !.task = "ready",
                                      !.res = clientResult(TRUE, NoErr)]
                    ELSE [dial EXCEPT !.task = "ready", !.conn = "closed",
                                      !.res = clientResult(FALSE, ErrWrite)]

\* ch is unbuffered: the goroutine's send and dialTimeout's receive are one
\* step, after which dialTimeout returns what it received
DialReceive ==
    /\ dial.pc = "wait"
    /\ dial.task = "ready"
    /\ dial' = [dial EXCEPT !.pc = "returned", !.task = "sent",
                            !.ret = dial.res,
                            !.conn = IF CloseOnError(dial.res.err)
                                     THEN "closed" ELSE @]

\* the case <-time.After(opt.ConnectTimeout) of the select, which is only
\* reached when ConnectTimeout is not 0
DialTimeout ==
    /\ dial.pc = "wait"
    /\ dial.opt.connect # 0
    /\ LET err == ErrConnectTimeout(dial.opt.connect) IN
       dial' = [dial EXCEPT !.pc = "returned",
                            !.ret = clientResult(FALSE, err),
                            !.conn = IF CloseOnError(err) THEN "closed" ELSE @]

\* no call of Dial
DialIdle ==
    dial = [pc |-> "idle", f |-> "NewClient", opts |-> <<>>, dflt |-> 0,
            opt |-> NilOption, conn |-> "none", task |-> "none",
            res |-> clientResult(FALSE, NoErr),
            ret |-> clientResult(FALSE, NoErr)]

\* ------------------------------------------------------------ initial state
\* a newClientCodec that starts the numbering at 0
InitClientSeqZero ==
    /\ calls = <<>>
    /\ seq = 0
    /\ pending = [n \in {} |-> 0]
    /\ sending = {}
    /\ mu = {}
    /\ closing = FALSE
    /\ shutdown = FALSE
    /\ rcv = [pc |-> "header", call |-> 0, seq |-> 0, herr |-> NoErr, err |-> NoErr, todo |-> {}]
    /\ doneCh = [c \in 0..MaxCalls |-> <<>>]
    /\ closeRet = <<>>
    /\ avail = <<>>

\* newClientCodec: seq starts at 1, no pending call
InitClient ==
    /\ calls = <<>>
    /\ seq = FirstSeq
    /\ pending = [n \in {} |-> 0]
    /\ sending = {}
    /\ mu = {}
    /\ closing = FALSE
    /\ shutdown = FALSE
    /\ rcv = [pc |-> "header", call |-> 0, seq |-> 0, herr |-> NoErr, err |-> NoErr, todo |-> {}]
    /\ doneCh = [c \in 0..MaxCalls |-> <<>>]
    /\ closeRet = <<>>
    /\ avail = <<>>

InitNet ==
    /\ cliOpen = TRUE
    /\ srvOpen = TRUE
    /\ c2s = <<>>
    /\ s2c = <<>>

\* a connection whose Option, the default one, has been accepted
InitServer ==
    /\ srv = [pc |-> "read", opt |-> DefaultOption]
    /\ hs = <<>>
    /\ srvSending = {}
    /\ inWrite = {}
    /\ rawSent = 0

\* the server of the demos: Register(&foo) has returned
InitServices ==
    /\ serviceMap = LoadOrStore(EmptyMap, Foo, newService(FooRcvr))
    /\ regs = <<>>
    /\ found = <<>>

\* NewServer()
InitReg ==
    /\ serviceMap = EmptyMap
    /\ regs = <<>>
    /\ found = <<>>

DiscIdle ==
    /\ servers = <<>>
    /\ index = 0
    /\ window = <<>>
    /\ lastGet = [mode |-> "", addr |-> "", err |-> NoErr, tick |-> FALSE]

Init == InitClient /\ InitNet /\ InitServer /\ InitServices /\ DiscIdle /\ DialIdle

\* what a step of the server, of the client, of the raw peer leaves alone
ServerOnly == ~Crashed /\ UNCHANGED <<cliOpen, rawSent, cvars, dvars, rvars, dial>>
ServerCall == ~Crashed /\ UNCHANGED <<cliOpen, rawSent, cvars, dvars, regs, found, dial>>
ClientOnly == UNCHANGED <<svars, rawSent, dvars, rvars, dial>>
PeerOnly == UNCHANGED <<cvars, dvars, rvars, dial>>

NextServer ==
    \/ SrvRead /\ ServerOnly
    \/ SrvErrHdr /\ ServerOnly
    \/ SrvErrBody /\ ServerOnly
    \/ SrvClose /\ ServerOnly
    \/ \E i \in 1..Len(hs) : HCall(i) /\ ServerCall
    \/ \E i \in 1..Len(hs) : HErrHdr(i) /\ ServerOnly
    \/ \E i \in 1..Len(hs) : HErrBody(i) /\ ServerOnly
    \/ \E i \in 1..Len(hs) : HRepHdr(i) /\ ServerOnly
    \/ \E i \in 1..Len(hs) : HRepBody(i) /\ ServerOnly
    \/ RawSend /\ PeerOnly
    \/ RawClose /\ PeerOnly

SpecServer == Init /\ [][NextServer]_vars

\* the goroutines of the server (the request loop and the handlers), which
\* the Go scheduler keeps running while any of them can take a step
ServerStep ==
    \/ SrvRead /\ ServerOnly
    \/ SrvErrHdr /\ ServerOnly
    \/ SrvErrBody /\ ServerOnly
    \/ SrvClose /\ ServerOnly
    \/ \E i \in 1..Len(hs) : HCall(i) /\ ServerCall
    \/ \E i \in 1..Len(hs) : HErrHdr(i) /\ ServerOnly
    \/ \E i \in 1..Len(hs) : HErrBody(i) /\ ServerOnly
    \/ \E i \in 1..Len(hs) : HRepHdr(i) /\ ServerOnly
    \/ \E i \in 1..Len(hs) : HRepBody(i) /\ ServerOnly

SpecServerFair == SpecServer /\ WF_vars(ServerStep)

Next ==
    \/ GoAny /\ ClientOnly
    \/ Close /\ ClientOnly
    \/ \E c \in 1..Len(calls) : Write(c) /\ ClientOnly
    \/ \E c \in 1..Len(calls) : SendDone(c) /\ ClientOnly
    \/ \E c \in 1..Len(calls) : CallDone(c) /\ ClientOnly
    \/ \E c \in 1..Len(calls) : CallCancel(c) /\ ClientOnly
    \/ \E c \in 1..Len(calls) : GoRecv(c) /\ ClientOnly
    \/ RecvHeader /\ ClientOnly
    \/ RecvBody /\ ClientOnly
    \/ TermLock /\ ClientOnly
    \/ \E n \in rcv.todo : TermDone(n) /\ ClientOnly
    \/ TermExit /\ ClientOnly
    \/ SrvRead /\ ServerOnly
    \/ SrvErrFrame /\ ServerOnly
    \/ SrvClose /\ ServerOnly
    \/ \E i \in 1..Len(hs) : HRun(i) /\ ServerCall
    \/ \E i \in 1..Len(hs) : HRepFrame(i) /\ ServerOnly

Spec == Init /\ [][Next]_vars

\* the same with callers that also ask IsAvailable
NextAvail ==
    \/ Next
    \/ IsAvailable /\ ClientOnly

SpecAvail == Init /\ [][NextAvail]_vars

\* the same with terminateCalls taking its locks one by one
NextLocks ==
    \/ GoAny /\ ClientOnly
    \/ Close /\ ClientOnly
    \/ IsAvailable /\ ClientOnly
    \/ \E c \in 1..Len(calls) : Write(c) /\ ClientOnly
    \/ \E c \in 1..Len(calls) : SendDone(c) /\ ClientOnly
    \/ \E c \in 1..Len(calls) : CallDone(c) /\ ClientOnly
    \/ \E c \in 1..Len(calls) : CallCancel(c) /\ ClientOnly
    \/ \E c \in 1..Len(calls) : GoRecv(c) /\ ClientOnly
    \/ RecvHeader /\ ClientOnly
    \/ RecvBody /\ ClientOnly
    \/ TermLockFirst /\ ClientOnly
    \/ TermLockSecond /\ ClientOnly
    \/ \E n \in rcv.todo : TermDone(n) /\ ClientOnly
    \/ TermExit /\ ClientOnly
    \/ SrvRead /\ ServerOnly
    \/ SrvErrFrame /\ ServerOnly
    \/ SrvClose /\ ServerOnly
    \/ \E i \in 1..Len(hs) : HRun(i) /\ ServerCall
    \/ \E i \in 1..Len(hs) : HRepFrame(i) /\ ServerOnly

SpecLocks == Init /\ [][NextLocks]_vars

InitD == InitClient /\ InitNet /\ InitServer /\ InitServices /\ InitDisc /\ DialIdle

DiscOnly == UNCHANGED <<cvars, nvars, svars, rawSent, rvars, dial>>

NextDisc ==
    \/ \E list \in Lists(MaxServers) : Update(list) /\ DiscOnly
    \/ \E mode \in SelectModes : Get(mode) /\ DiscOnly

SpecDisc == InitD /\ [][NextDisc]_vars

InitR == InitClient /\ InitNet /\ InitServer /\ InitReg /\ DiscIdle /\ DialIdle

RegOnly == ~Fatal /\ UNCHANGED <<cvars, nvars, svars, rawSent, dvars, dial>>

NextReg ==
    \/ \E rcvr \in Receivers : RegisterNew(rcvr) /\ RegOnly
    \/ \E i \in 1..Len(regs) : RegisterStore(i) /\ RegOnly
    \/ \E sm \in FindInputs : Find(sm) /\ RegOnly

SpecReg == InitR /\ [][NextReg]_vars

\* a connection from its first message on: the peer has written it, the
\* server has not read it yet
InitConn ==
    /\ InitClient
    /\ cliOpen = TRUE
    /\ srvOpen = TRUE
    /\ c2s \in {<<o>> : o \in FirstMessages}
    /\ s2c = <<>>
    /\ srv = [pc |-> "option", opt |-> <<>>]
    /\ hs = <<>>
    /\ srvSending = {}
    /\ inWrite = {}
    /\ rawSent = 0
    /\ InitServices
    /\ DiscIdle
    /\ DialIdle

NextConn ==
    \/ ServerConn /\ ServerOnly
    \/ NextServer

SpecConn == InitConn /\ [][NextConn]_vars

\* a call of Dial (f = NewClient) or DialHTTP (f = NewHTTPClient)
InitDial ==
    /\ InitClient /\ InitNet /\ InitServer /\ InitServices /\ DiscIdle
    /\ dial \in [pc : {"start"}, f : {"NewClient", "NewHTTPClient"},
                 opts : DialArgs, dflt : 0..MaxTimeout, opt : {NilOption},
                 conn : {"none"}, task : {"none"},
                 res : {clientResult(FALSE, NoErr)},
                 ret : {clientResult(FALSE, NoErr)}]

DialOnly == UNCHANGED <<cvars, nvars, svars, rawSent, dvars, rvars>>

NextDial ==
    \/ DialConnect /\ DialOnly
    \/ NewHTTPClient /\ DialOnly
    \/ NewClient /\ DialOnly
    \/ DialReceive /\ DialOnly
    \/ DialTimeout /\ DialOnly

SpecDial == InitDial /\ [][NextDial]_vars

\* ================================================================= properties
\* number of positions of sequence s whose element is in set S
CountIn(s, S) == Cardinality({j \in 1..Len(s) : s[j] \in S})

\* ---------------------------------------------------------------- server side
\* response frames on the wire that carry Seq n
FramesFor(n) == Cardinality({j \in 1..Len(s2c) : s2c[j].k = "H" /\ s2c[j].seq = n})

\* C1: for every request frame the server has read, at most one response
\* frame with the request's Seq is on the wire, and exactly one once the
\* request's handler has finished (the peer still reading).
C1_OneResponsePerRequest ==
    \A i \in 1..Len(hs) :
        /\ FramesFor(hs[i].seq) <= 1
        /\ (hs[i].pc = "done" /\ cliOpen) => FramesFor(hs[i].seq) = 1

\* C4: at most one goroutine is inside cc.Write, it holds the sending mutex,
\* and on the wire every body follows the header of the same writer and
\* every header is followed by nothing but the body of the same writer.
C4_WritesSerialized ==
    /\ Cardinality(inWrite) <= 1
    /\ Cardinality(srvSending) <= 1
    /\ inWrite \subseteq srvSending
    /\ \A j \in 1..Len(s2c) :
          /\ s2c[j].k = "B" => (j > 1 /\ s2c[j - 1].k = "H" /\ s2c[j - 1].w = s2c[j].w)
          /\ (s2c[j].k = "H" /\ j < Len(s2c)) =>
                (s2c[j + 1].k = "B" /\ s2c[j + 1].w = s2c[j].w)

\* one handler is between the header and the body of its response while
\* another one waits in sendResponse for the mutex
C4_Witness ==
    \E i, j \in 1..Len(hs) :
        /\ i # j
        /\ inWrite = {i}
        /\ hs[j].pc \in {"errHdr", "repHdr"}
        /\ s2c # <<>> /\ Last(s2c).k = "H" /\ Last(s2c).w = i

\* ------------------------------------------------------------------ discovery
\* C8: once Len(servers) = N >= 1 round-robin Gets have been made on an
\* unchanged list, the latest N of them returned each address as many times
\* as the list holds it, that is each of the N entries exactly once.
C8_RoundRobinCoversAll ==
    (servers # <<>> /\ Len(window) = Len(servers)) =>
        \A a \in Addrs : CountIn(window, {a}) = CountIn(servers, {a})

\* three consecutive Gets on a list of three entries with both addresses,
\* the first of them not at the head of the list
C8_Witness ==
    /\ Len(servers) = MaxServers
    /\ Len(window) = MaxServers
    /\ Range(servers) = Addrs
    /\ window # servers
    /\ lastGet.err = NoErr

\* ---------------------------------------------------------------- client side
Registered(c) == calls[c].Seq # 0
Cancelled(c) == calls[c].pc = "returned" /\ calls[c].ret = ErrCtx
IsPending(c) == \E n \in DOMAIN pending : pending[n] = c

\* somebody still holds the call and has its call.done() ahead: the pending
\* table, the receive goroutine between removeCall and done, or send
InFlight(c) == IsPending(c) \/ rcv.call = c \/ calls[c].pc \in {"write", "done"}

\* C2 as stated: a registered Call never has two values sent on Done, and has
\* exactly one as soon as nobody holds it any more.
C2_ExactlyOneDone ==
    \A c \in 1..Len(calls) :
        Registered(c) =>
            /\ calls[c].nDone <= 1
            /\ ~InFlight(c) => calls[c].nDone = 1

\* C2, amended: never two values; exactly one when the receive loop, a write
\* failure or terminateCalls ended the call; a Call whose entry its own
\* cancellation deleted before any of them has none, and keeps none.
C2_DoneAtMostOnce ==
    /\ [](\A c \in 1..Len(calls) :
            Registered(c) =>
                /\ calls[c].nDone <= 1
                /\ ~InFlight(c) => (calls[c].nDone = 1 \/ calls[c].unreg)
                /\ (rcv.pc = "exited" /\ IsPending(c)) => calls[c].nDone = 1)
    /\ [][\A c \in 1..Len(calls) :
            (calls[c].unreg /\ calls[c].nDone = 0) => calls'[c].nDone = 0]_vars

\* a cancelled Call that no value was sent for, next to a Call that the
\* receive loop completed
C2_Witness ==
    \E c, d \in 1..Len(calls) :
        /\ Cancelled(c) /\ calls[c].unreg /\ calls[c].nDone = 0
        /\ rcv.pc = "exited"
        /\ Registered(d) /\ calls[d].nDone = 1 /\ calls[d].reply = Sum(calls[d].arg)

C5_OwnResult ==
    \A c \in 1..Len(calls) :
        /\ calls[c].reply # 0 => calls[c].reply = Sum(calls[c].arg)
        /\ (calls[c].mode = "Call" /\ calls[c].pc = "returned" /\ calls[c].ret = NoErr) =>
              (calls[c].reply = Sum(calls[c].arg) /\ calls[c].nDone = 1)
        /\ rcv.call = c => calls[c].Seq = rcv.seq
        /\ calls[c].nDone <= 1

\* two Calls with different arguments in flight together; the second has
\* returned its own sum while the first still waits
C5_Witness ==
    /\ Len(calls) = 2
    /\ calls[1].mode = "Call" /\ calls[2].mode = "Call"
    /\ calls[1].arg # calls[2].arg
    /\ calls[1].pc = "wait" /\ calls[1].nDone = 0 /\ IsPending(1)
    /\ calls[2].pc = "returned" /\ calls[2].ret = NoErr
    /\ calls[2].reply = Sum(calls[2].arg)

\* C6: a Call that returned for cancellation has no entry in the pending
\* table and returned the cancellation error; from then on the receive loop
\* takes no response for it and its reply stays as it is.
C6_CancelDiscardsLate ==
    /\ [](\A c \in 1..Len(calls) :
            Cancelled(c) => (~IsPending(c) /\ calls[c].ret # NoErr))
    /\ [][\A c \in 1..Len(calls) :
            (Cancelled(c) /\ rcv.call # c) =>
                (rcv'.call # c /\ calls'[c].reply = calls[c].reply
                 /\ calls'[c].nDone = calls[c].nDone)]_vars

\* the successful response of a cancelled Call was read and dropped: the
\* receive loop is back at the next header, the reply is untouched
C6_Witness ==
    \E c \in 1..Len(calls) :
        /\ Cancelled(c) /\ calls[c].unreg
        /\ calls[c].sm = SumSM /\ calls[c].typed
        /\ rcv.pc = "header" /\ rcv.seq = calls[c].Seq /\ rcv.herr = NoErr
        /\ calls[c].reply = 0 /\ calls[c].nDone = 0

\* C7: the step in which a Call returns for cancellation changes neither
\* shutdown nor closing nor the receive loop nor the connection; a call made
\* after it that completes without error has the sum of its own arguments.
C7_UsableAfterCancel ==
    /\ [][\A c \in 1..Len(calls) :
            (calls[c].pc = "wait" /\ calls'[c].pc = "returned" /\ calls'[c].ret = ErrCtx)
                => UNCHANGED <<shutdown, closing, rcv, cliOpen, sending, mu, seq>>]_vars
    /\ [](\A d \in 1..Len(calls) :
            (calls[d].late /\ calls[d].nDone = 1 /\ calls[d].err = NoErr) =>
                calls[d].reply = Sum(calls[d].arg))

\* the first Call was cancelled with its request on the wire; the Call made
\* after it, with another argument, returned its own sum; the client is
\* neither closing nor shut down
C7_Witness ==
    /\ Len(calls) = 2
    /\ Cancelled(1) /\ calls[1].unreg /\ calls[1].reply = 0
    /\ calls[2].late /\ calls[2].arg # calls[1].arg
    /\ calls[2].pc = "returned" /\ calls[2].ret = NoErr
    /\ calls[2].reply = Sum(calls[2].arg)
    /\ ~closing /\ ~shutdown /\ rcv.pc = "header"
    /\ Len(hs) = 2 /\ hs[1].pc = "done"

\* C9: a Go with an unbuffered channel panicked with no Seq, no entry and no
\* Done value; Seqs were consumed by registered calls only and no more
\* requests reached the wire than calls were registered; a Go with a nil
\* channel never panics and signals on a channel of capacity >= 1.
C9_UnbufferedPanics ==
    /\ \A c \in 1..Len(calls) :
          /\ calls[c].mode = "GoUnbuf" =>
                (calls[c].pc = "panicked" /\ ~Registered(c) /\ ~IsPending(c)
                 /\ calls[c].nDone = 0)
          /\ calls[c].mode = "GoNil" =>
                (calls[c].pc # "panicked" /\ CapOf(calls[c].mode) >= 1)
    /\ seq - FirstSeq = Cardinality({c \in 1..Len(calls) : Registered(c)})
    /\ Len(hs) + CountIn([j \in 1..Len(c2s) |-> c2s[j].k], {"H"}) <= seq - FirstSeq

\* a Go with an unbuffered channel panicked, and the Go with a nil channel
\* made after it got the first Seq
C9_Witness ==
    /\ Len(calls) = 2
    /\ calls[1].mode = "GoUnbuf" /\ calls[1].pc = "panicked"
    /\ calls[2].mode = "GoNil" /\ calls[2].Seq = FirstSeq
    /\ calls[2].pc = "returned" /\ calls[2].reply = Sum(calls[2].arg)

\* a call that Go refused: it got ErrShutdown, no Seq, no entry, no frame
Refused ==
    /\ Last(calls').err = ErrShutdown /\ ~(Last(calls').Seq # 0)
    /\ pending' = pending /\ seq' = seq /\ c2s' = c2s

\* C10 as stated: with shutdown or closing set, a Go or Call that gets past
\* the capacity test is refused with ErrShutdown, and Close returns ErrShutdown.
C10_AllErrShutdown ==
    [][(shutdown \/ closing) =>
          /\ (Len(calls') > Len(calls) /\ Last(calls').pc # "panicked") => Refused
          /\ Len(closeRet') > Len(closeRet) => Last(closeRet') = ErrShutdown]_vars

\* C10, amended: with shutdown or closing set, Go and Call are refused with
\* ErrShutdown (a Call returns it unless its context is done as well); Close
\* returns ErrShutdown exactly when closing was already set, and otherwise
\* what closing the connection returned.
C10_ErrShutdownAfterClose ==
    /\ [][(shutdown \/ closing) =>
            ((Len(calls') > Len(calls) /\ Last(calls').pc # "panicked") => Refused)]_vars
    /\ [][Len(closeRet') > Len(closeRet) =>
            (Last(closeRet') = ErrShutdown <=> closing)]_vars
    /\ [](\A c \in 1..Len(calls) :
            (calls[c].mode = "Call" /\ ~Registered(c) /\ calls[c].pc = "returned")
                => calls[c].ret \in {ErrShutdown, ErrCtx})

\* the server's end went away, terminateCalls ran, a Call was then refused
\* with ErrShutdown, the first Close returned nil and the second ErrShutdown
C10_Witness ==
    /\ shutdown /\ rcv.pc = "exited" /\ rcv.err = ErrEOF
    /\ closeRet = <<NoErr, ErrShutdown>>
    /\ \E c \in 1..Len(calls) :
          /\ calls[c].mode = "Call" /\ ~Registered(c)
          /\ calls[c].pc = "returned" /\ calls[c].ret = ErrShutdown

\* the calls of Close that went on to cc.Close()
CodecCloses == CountIn(closeRet, {NoErr, ErrClosed})

\* C11: a Close that finds closing unset sets it, closes the codec and
\* returns what that returned; a Close that finds it set returns ErrShutdown
\* and leaves the connection alone; so of all Closes only the first closed
\* the codec.  IsAvailable returns true exactly when neither flag is set,
\* and changes neither.
C11_CloseOnceAndAvailable ==
    /\ [][closeRet' # closeRet =>
            IF closing
            THEN Last(closeRet') = ErrShutdown /\ UNCHANGED <<closing, cliOpen>>
            ELSE closing' /\ ~cliOpen' /\ Last(closeRet') # ErrShutdown]_vars
    /\ [](closeRet # <<>> =>
            (closing /\ ~cliOpen /\ CodecCloses = 1 /\ closeRet[1] # ErrShutdown))
    /\ [][avail' # avail =>
            (avail' = <<~shutdown /\ ~closing>> /\ UNCHANGED <<shutdown, closing>>)]_vars

\* two Closes, the second refused, on a client that never shut down;
\* IsAvailable then returned false
C11_Witness ==
    /\ closeRet = <<NoErr, ErrShutdown>>
    /\ ~shutdown
    /\ avail = <<FALSE>>

\* --------------------------------------------------------------- registration
\* the calls of Register that have returned, for a service name
Returned(name) == {i \in 1..Len(regs) : regs[i].pc = "done" /\ regs[i].rcvr.name = name}

\* C12: a registered service is never replaced or removed; of the calls of
\* Register for one name that have returned exactly one returned nil, its
\* receiver is the one registered, and the others returned the error.
C12_RegisterOnce ==
    /\ [][\A n \in DOMAIN serviceMap :
            n \in DOMAIN serviceMap' /\ serviceMap'[n] = serviceMap[n]]_vars
    /\ [](\A i \in 1..Len(regs) :
            LET n == regs[i].rcvr.name IN
            regs[i].pc = "done" =>
                /\ n \in DOMAIN serviceMap
                /\ Cardinality({j \in Returned(n) : regs[j].ret = NoErr}) = 1
                /\ regs[i].ret = NoErr => serviceMap[n].rcvr = regs[i].rcvr
                /\ regs[i].ret # NoErr => regs[i].ret = ErrDup(n))

\* two Registers for the name Foo, with different receivers, have run
\* together: the one that began second stored first and the other got the
\* error
C12_Witness ==
    /\ Len(regs) >= 2
    /\ regs[1].rcvr.name = Foo /\ regs[2].rcvr.name = Foo
    /\ regs[1].rcvr # regs[2].rcvr
    /\ regs[1].pc = "done" /\ regs[2].pc = "done"
    /\ regs[1].ret = ErrDup(Foo) /\ regs[2].ret = NoErr
    /\ serviceMap[Foo].rcvr = regs[2].rcvr

\* what findService has to return for name sm with services m registered
FindCorrect(sm, r, m) ==
    LET dots == {j \in 1..Len(sm) : sm[j] = "."} IN
    /\ IF dots = {}
       THEN r.err = ErrIllFormed(sm)
       ELSE LET d == CHOOSE j \in dots : \A k \in dots : k <= j
                service == SubSeq(sm, 1, d - 1)
                method == SubSeq(sm, d + 1, Len(sm))
            IN IF service \notin DOMAIN m
               THEN r.err = ErrNoService(service)
               ELSE IF method \notin DOMAIN m[service].method
               THEN r.err = ErrNoMethod(method)
               ELSE r.err = NoErr /\ r.svc = service /\ r.mtype = method
    /\ (r.svc # <<>> /\ r.mtype # <<>>) <=> r.err = NoErr

\* C15: findService splits at the last dot and answers a name without a
\* dot, an unknown service and an unknown method of a known service with
\* three errors that differ whatever the names, the last naming the method;
\* service and method are both non-nil exactly when the error is nil.
C15_FindService ==
    /\ [][found' # found =>
            FindCorrect(found'[1].sm, found'[1].res, serviceMap)]_vars
    /\ [](Cardinality({Head(ErrIllFormed(<<>>)), Head(ErrNoService(<<>>)),
                       Head(ErrNoMethod(<<>>))}) = 3)

\* a name with two dots whose last part is a method of the registered Bar:
\* the service looked for is everything before the last dot
C15_Witness ==
    /\ Bar \in DOMAIN serviceMap
    /\ found # <<>>
    /\ found[1].sm = <<"Bar", ".", "Foo", ".", "Sum">>
    /\ found[1].res.err = ErrNoService(<<"Bar", ".", "Foo">>)

\* the type a pointer type points to, in the end
RECURSIVE BaseType(_)
BaseType(t) == IF t.elem = <<>> THEN t ELSE BaseType(t.elem[1])

\* the methods C16 calls eligible: exported, one argument and one reply
\* besides the receiver, one result of type error, argument and reply of
\* a type (pointers followed) that is exported or built in
Eligible(rcvr) ==
    {m \in rcvr.methods :
        /\ m.upper
        /\ Len(m.ins) = 2
        /\ m.outs = <<ErrorType>>
        /\ \A j \in 1..2 : BaseType(m.ins[j]).upper \/ BaseType(m.ins[j]).pkg = ""}

\* C16: the method table of every registered service holds exactly the
\* eligible methods of its receiver.
C16_EligibleMethods ==
    \A n \in DOMAIN serviceMap :
        DOMAIN serviceMap[n].method = {m.name : m \in Eligible(serviceMap[n].rcvr)}

\* ------------------------------------------------------------------- numCalls
\* the requests whose handler has got past atomic.AddUint64 in call
Invoked(m) ==
    {i \in 1..Len(hs) : hs[i].mtype = m /\ hs[i].pc \notin {"new", "call", "panic"}}

\* C17: numCalls of a method is the number of its invocations so far, of
\* those that returned an error too; an invocation of Sum left the sum of
\* its argument in the reply and no error of its own, one of a failing
\* method left the method's error.
C17_NumCalls ==
    /\ \A m \in DOMAIN serviceMap[Foo].method :
          serviceMap[Foo].method[m].numCalls = Cardinality(Invoked(m))
    /\ \A i \in Invoked(<<"Sum">>) :
          /\ hs[i].reply = Sum(IF hs[i].typed THEN hs[i].arg ELSE 0)
          /\ hs[i].err = IF hs[i].typed THEN NoErr ELSE ErrReadBody
    /\ \A i \in Invoked(<<"Fail">>) : hs[i].err = ErrMethod

\* two handlers are past the call together, one of Sum and one of the
\* failing method, neither response written yet
C17_Witness ==
    /\ Len(hs) = 2
    /\ hs[1].mtype = <<"Fail">> /\ hs[1].pc = "errHdr"
    /\ hs[2].mtype = <<"Sum">> /\ hs[2].pc = "repHdr" /\ hs[2].reply = Sum(MaxArg)
    /\ serviceMap[Foo].method[<<"Sum">>].numCalls = 1
    /\ serviceMap[Foo].method[<<"Fail">>].numCalls = 1

\* ------------------------------------------------------------------- C13
\* the first message is not an Option that ServerConn serves
BadFirst(o) == ~o.json \/ o.magic # MagicNumber \/ o.codec \notin NewCodecFuncMap

\* C13: when the first message on a connection does not decode as an Option,
\* or its MagicNumber is not 0x3bef5c, or its CodecType has no constructor,
\* ServerConn closes the connection and never enters the request loop: no
\* request is read and nothing is written, whatever the peer has sent behind
\* the first message.
C13_BadOptionRejected ==
    /\ srv.pc = "option" => hs = <<>> /\ s2c = <<>>
    /\ srv.pc # "option" /\ BadFirst(srv.opt) =>
          /\ srv.pc = "closed"
          /\ ~srvOpen
          /\ hs = <<>>
          /\ s2c = <<>>

\* an Option naming a codec type without constructor has been rejected, the
\* peer having written a request behind it
C13_Witness ==
    /\ srv.pc = "closed"
    /\ srv.opt.json /\ srv.opt.magic = MagicNumber /\ srv.opt.codec = JsonType
    /\ rawSent >= 1
    /\ hs = <<>>

\* ------------------------------------------------------------------- C14
\* request i is one whose service or method lookup failed
RoutingFailed(i) == findService(hs[i].sm).err # NoErr

\* C14: once a request whose lookup failed has been read, that request's body
\* is consumed too: whenever the request loop is about to read a header after
\* it, the stream is at a frame boundary.
C14_RoutingFailureKeepsFraming ==
    (/\ srv.pc = "read" /\ srvOpen /\ c2s # <<>>
     /\ \E i \in 1..Len(hs) : RoutingFailed(i))
        => Head(c2s).k = "H"

\* ------------------------------------------------------------------- C18
\* the caller of call c is blocked receiving from the call's Done channel
Waiting(c) == Registered(c) /\ calls[c].pc = "wait"

\* C18: a read error ends the receive loop in terminateCalls, which sets
\* shutdown; when it has returned, every Call then in the pending table
\* carries the read error and has been signalled once, and every caller still
\* waiting on a registered Call has a value to receive on its Done channel.
C18_TerminateCalls ==
    /\ rcv.pc \in {"term", "termLoop", "exited"} => rcv.err # NoErr
    /\ rcv.pc \in {"termLoop", "exited"} => shutdown
    /\ rcv.pc = "exited" =>
          /\ \A n \in DOMAIN pending :
                /\ calls[pending[n]].err = rcv.err
                /\ calls[pending[n]].nDone = 1
          /\ \A c \in 1..Len(calls) :
                Waiting(c) => doneCh[calls[c].ch] # <<>>

\* the server has gone with a call registered and unanswered: the receive
\* loop read EOF, terminateCalls has run, and the caller, still waiting, has
\* the call with that error on its Done channel
C18_Witness ==
    /\ rcv.pc = "exited" /\ rcv.err = ErrEOF
    /\ \E n \in DOMAIN pending :
          /\ Waiting(pending[n])
          /\ calls[pending[n]].mode = "Call"
          /\ calls[pending[n]].err = ErrEOF
          /\ doneCh[pending[n]] = <<pending[n]>>

\* ------------------------------------------------------------------- C19
ErrHandleTimeout(d) == <<"rpc server: request handle timeout: expect within ", d>>

\* request i was routed to a method whose invocation lasts longer than the
\* HandleTimeout the peer sent in its Option
TimedOut(i) ==
    /\ hs[i].mtype # <<>>
    /\ srv.opt.timeout > 0
    /\ Elapsed(hs[i].mtype, hs[i].arg) > srv.opt.timeout

\* C19: with a HandleTimeout greater than 0, a request whose handler does not
\* finish within it is answered with the handle-timeout error, and the late
\* result of the method is never sent: every response header written for the
\* request carries that error and the body behind it is empty.
C19_HandleTimeoutAnswered ==
    \A i \in 1..Len(hs) :
        TimedOut(i) =>
            \A n \in 1..Len(s2c) :
                (s2c[n].k = "H" /\ s2c[n].seq = hs[i].seq) =>
                    /\ s2c[n].err = ErrHandleTimeout(srv.opt.timeout)
                    /\ n < Len(s2c) => s2c[n + 1].val = invalidRequest

\* ------------------------------------------------------------------- C20
\* C20: a Get on an empty list returns "no available servers" whatever the
\* select mode, a Get with a mode that is neither RandomSelect nor
\* RoundRobinSelect returns an error, and neither of them changes the
\* round-robin index or the server list.
C20_GetErrors ==
    [][lastGet'.tick # lastGet.tick =>
        /\ servers = <<>> =>
              /\ lastGet'.err = <<"rpc discovery: no available servers">>
              /\ lastGet'.addr = ""
              /\ index' = index /\ servers' = servers
        /\ lastGet'.mode \notin {RandomSelect, RoundRobinSelect} =>
              /\ lastGet'.err # NoErr
              /\ lastGet'.addr = ""
              /\ index' = index /\ servers' = servers]_vars

\* on a discovery whose list is empty and whose index is not 0, a Get with an
\* unsupported mode has returned the empty-list error
C20_Witness ==
    /\ servers = <<>>
    /\ index > 0
    /\ lastGet.mode = "other"
    /\ lastGet.err = ErrNoServers

\* ------------------------------------------------------------------- C21
\* the handler of request i has called the method and the method returned
\* an error
MethodFailed(i) ==
    /\ hs[i].mtype # <<>>
    /\ hs[i].pc \notin {"new", "call", "panic"}
    /\ Invoke(hs[i].mtype, IF hs[i].typed THEN hs[i].arg ELSE 0).err # NoErr

\* C21: for a request whose method returned an error, every response the
\* handler writes has the method's error in its header and invalidRequest as
\* its body: the value of the reply container is not sent.
C21_MethodErrorResponse ==
    \A i \in 1..Len(hs) :
        MethodFailed(i) =>
            \A n \in 1..Len(s2c) :
                s2c[n].w = i =>
                    IF s2c[n].k = "H"
                    THEN s2c[n].seq = hs[i].seq /\ s2c[n].err = ErrMethod
                    ELSE s2c[n].val = invalidRequest

\* ------------------------------------------------------------------- C22
\* C22: whatever logical errors the requests of a connection run into, the
\* server process does not die, the request loop goes on reading as long as
\* the peer keeps its end open, and every request whose handler has finished
\* has a response of its own on the wire.
C22_SiblingsUnaffected ==
    /\ ~Crashed
    /\ cliOpen => srv.pc \in {"read", "errHdr", "errBody"}
    /\ \A i \in 1..Len(hs) :
          (hs[i].pc = "done" /\ cliOpen) => FramesFor(hs[i].seq) >= 1

\* ------------------------------------------------------------------- C23
\* C23: serveCodec closes the codec only when every handler spawned on the
\* connection has finished and none is inside a write; nothing is written
\* and no handler moves once it has closed; and when the request loop has
\* ended it does close the codec, unless a handler's panic ends the process.
C23_CloseAfterHandlers ==
    /\ [](srv.pc = "closed" =>
            /\ \A i \in 1..Len(hs) : hs[i].pc = "done"
            /\ inWrite = {} /\ srvSending = {})
    /\ [][srv.pc = "closed" => (hs' = hs /\ s2c' = s2c)]_vars
    /\ (srv.pc = "wait") ~> (srv.pc = "closed" \/ Crashed)

\* the peer has closed its end, the handlers of its two requests have
\* finished, and serveCodec has closed the codec
C23_Witness ==
    /\ srv.pc = "closed"
    /\ Len(hs) = 2
    /\ ~cliOpen
    /\ \A i \in 1..2 : hs[i].pc = "done" /\ hs[i].err = NoErr

\* ------------------------------------------------------------------- C24
\* the step in which cc.Write of call c's request returns an error: send
\* leaves the write, and GobCodec.Write has closed the connection
WriteFails(c) ==
    calls[c].pc = "write" /\ calls'[c].pc # "write" /\ ~cliOpen'

\* C24: when the write of a call's request fails, send removes the call's
\* entry from the pending table, sets the write error on the call and
\* signals Done (or is blocked doing so); a call that carries the write error
\* keeps it, is in the pending table no more, and is signalled once, not
\* twice, whatever the receive loop and terminateCalls do meanwhile.
C24_WriteFailureCompletes ==
    /\ [][\A c \in 1..Len(calls) :
            WriteFails(c) =>
                /\ calls[c].Seq \notin DOMAIN pending'
                /\ calls'[c].err = ErrWrite
                /\ calls'[c].nDone = 1 \/ calls'[c].pc = "done"]_vars
    /\ [][\A c \in 1..Len(calls) :
            calls[c].err = ErrWrite => calls'[c].err = ErrWrite]_vars
    /\ [](\A c \in 1..Len(calls) :
            calls[c].err = ErrWrite =>
                /\ ~IsPending(c)
                /\ calls[c].nDone <= 1
                /\ calls[c].pc # "done" => calls[c].nDone = 1)

\* the write of one call failed and completed it, while terminateCalls
\* completed another call, which is still in the pending table
C24_Witness ==
    /\ rcv.pc = "exited"
    /\ \E c, d \in 1..Len(calls) :
          /\ calls[c].err = ErrWrite /\ calls[c].nDone = 1 /\ Registered(c)
          /\ IsPending(d) /\ calls[d].err = rcv.err /\ calls[d].nDone = 1

\* ------------------------------------------------------------------- C25
\* the Seq of the request headers the client has written, in the order of
\* the wire: those the server has read, then those still on their way
WireSeqs ==
    [i \in 1..Len(hs) |-> hs[i].seq]
        \o [i \in 1..Len(SelectSeq(c2s, LAMBDA x : x.k = "H")) |->
                SelectSeq(c2s, LAMBDA x : x.k = "H")[i].seq]

\* C25: the request frames of a client are on the wire in increasing order
\* of Seq, each header directly followed by its own body.
C25_FramesInSeqOrder ==
    /\ \A i, j \in 1..Len(WireSeqs) : i < j => WireSeqs[i] < WireSeqs[j]
    /\ \A n \in 1..Len(c2s) :
          IF n = Len(c2s) THEN c2s[n].k = "B" ELSE c2s[n].k # c2s[n + 1].k
    /\ \A c \in 1..Len(calls) :
          calls[c].pc = "write" => sending = {c}

\* the frames of two calls are on the wire, unread, Seq 1 before Seq 2
C25_Witness ==
    /\ Len(calls) = 2
    /\ Len(c2s) = 4
    /\ c2s[1].seq = FirstSeq /\ c2s[3].seq = FirstSeq + 1
    /\ hs = <<>>

\* ------------------------------------------------------------------- C26
\* the calls that registerCall accepted, in the order of their registration
RegisteredCalls == SelectSeq(calls, LAMBDA x : x.Seq # 0)

\* C26: the k-th Call that a Client registers gets Seq k, so the first gets
\* 1, later ones get larger ones and no two share one; the counter is one
\* past the Seq given last, and every key of the pending table is the Seq of
\* the call stored under it and smaller than the counter.
C26_SeqAssignment ==
    /\ \A k \in 1..Len(RegisteredCalls) : RegisteredCalls[k].Seq = k
    /\ seq = Len(RegisteredCalls) + 1
    /\ \A n \in DOMAIN pending :
          /\ n < seq
          /\ calls[pending[n]].Seq = n

\* two calls were registered, and the first of them has left the pending
\* table
C26_Witness ==
    /\ Len(RegisteredCalls) = 2
    /\ seq = 3
    /\ DOMAIN pending = {2}

\* ------------------------------------------------------------------- C27
\* goroutine g, which holds a lock, can take its next step
HolderRuns(g) ==
    IF g = RecvId
    THEN \/ ENABLED TermLockSecond
         \/ ENABLED TermExit
         \/ \E n \in rcv.todo : ENABLED TermDone(n)
    ELSE ENABLED Write(g) \/ ENABLED SendDone(g)

\* goroutine g is inside call.done(), waiting for room in a Done channel
HolderInDone(g) ==
    IF g = RecvId
    THEN rcv.pc = "termLoop" /\ rcv.todo # {}
    ELSE calls[g].pc = "done"

\* C27: whoever holds the state lock has taken the send lock before it and
\* nobody holding the state lock waits for the send lock; no goroutine that
\* holds one of the two locks is stopped waiting for the other: it can take
\* its next step, unless it is inside call.done().
C27_LockOrder ==
    /\ mu # {} => sending = mu
    /\ \A g \in sending \cup mu : HolderRuns(g) \/ HolderInDone(g)

\* terminateCalls holds the send lock and is about to take the state lock,
\* a caller's Close having set closing
C27_Witness ==
    /\ rcv.pc = "termSecond"
    /\ sending = {RecvId} /\ mu = {}
    /\ closing
    /\ DOMAIN pending # {}

\* ------------------------------------------------------------------- C28
\* C28: wherever call.done() is called there is room in the call's Done
\* channel, so that the send returns at once: in send, in the receive loop
\* once it has taken the call from the pending table, and in terminateCalls
\* for every call it has yet to complete.
C28_DoneNeverBlocks ==
    /\ \A c \in 1..Len(calls) : calls[c].pc = "done" => CanDone(c)
    /\ (rcv.pc = "body" /\ rcv.call # 0) => CanDone(rcv.call)
    /\ rcv.pc = "termLoop" => \A n \in rcv.todo : CanDone(pending[n])

\* ------------------------------------------------------------------- C29
\* the methods of a registered service, as its receiver declares them
Recorded(n) ==
    {m \in serviceMap[n].rcvr.methods : m.name \in DOMAIN serviceMap[n].method}

\* C29: the ReplyType of every method that registration has recorded is a
\* pointer type, so that newReplyv does not fail on it.
C29_ReplyTypeIsPointer ==
    \A n \in DOMAIN serviceMap :
        \A m \in Recorded(n) :
            /\ m.ins[2].elem # <<>>
            /\ ~newReplyvPanics(m.ins[2])

\* C30: a Dial that has dialed a connection and got ConnectTimeout = 0 returns
\* only what the construction sent it; a Dial returns while the construction
\* has no result only with the connect-timeout error; a connect-timeout
\* return has ConnectTimeout > 0, a nil client and the connection closed; and
\* whenever a Dial that has dialed a connection returns an error, the
\* connection is closed.
DialReturned == dial.pc = "returned" /\ dial.conn # "none"

C30_DialTimeout ==
    /\ [](DialReturned =>
            /\ dial.opt.connect = 0 =>
                  dial.task = "sent" /\ dial.ret = dial.res
            /\ dial.ret.err = ErrConnectTimeout(dial.opt.connect) =>
                  /\ dial.opt.connect > 0
                  /\ ~dial.ret.client
                  /\ dial.conn = "closed"
                  /\ dial.task # "sent"
            /\ dial.ret.err # NoErr => dial.conn = "closed")
    /\ [][dial.pc = "wait" /\ dial'.pc = "returned" /\ dial.task # "ready"
            => dial'.ret = clientResult(FALSE, ErrConnectTimeout(dial.opt.connect))]_vars

\* the timer fired while NewClient was still running: Dial returned its
\* connect-timeout error and closed the connection
C30_Witness ==
    /\ DialReturned
    /\ dial.opt.connect > 0
    /\ dial.task = "new"
    /\ dial.ret = clientResult(FALSE, ErrConnectTimeout(dial.opt.connect))
    /\ dial.conn = "closed"

\* C31: 0 is never a key of the pending table, and when a Call that Go
\* refused to register (its Seq is still 0) returns on its cancelled context,
\* the removeCall(call.Seq) it does leaves the pending table as it was.
RefusedCancel(c) ==
    /\ calls[c].pc = "wait" /\ calls[c].Seq = 0
    /\ calls'[c].pc = "returned" /\ calls'[c].ret = ErrCtx

C31_SeqZeroNeverPending ==
    /\ [](0 \notin DOMAIN pending)
    /\ [][\A c \in 1..Len(calls) : RefusedCancel(c) => pending' = pending]_vars

\* a refused Call has returned on its cancelled context while another
\* caller's call is still in the pending table
C31_Witness ==
    \E c, d \in 1..Len(calls) :
        /\ calls[c].mode = "Call" /\ calls[c].Seq = 0
        /\ calls[c].err = ErrShutdown
        /\ calls[c].pc = "returned" /\ calls[c].ret = ErrCtx
        /\ d # c /\ calls[d].Seq \in DOMAIN pending
        /\ pending[calls[d].Seq] = d

\* C32: the index is never negative, and every Get(RoundRobinSelect),
\* whatever Updates and Gets came before it, either finds the list empty and
\* returns the no-servers error, leaving the index alone, or returns an
\* element of the current list and leaves the index in 0..n-1 for the length
\* n of that list.
RoundRobinGet == lastGet'.tick # lastGet.tick /\ lastGet'.mode = RoundRobinSelect

C32_RoundRobinInRange ==
    /\ [](index >= 0)
    /\ [][RoundRobinGet =>
            \/ /\ servers = <<>>
               /\ lastGet'.err = ErrNoServers
               /\ index' = index
            \/ /\ servers # <<>>
               /\ lastGet'.err = NoErr
               /\ lastGet'.addr \in Range(servers)
               /\ index' \in 0..(Len(servers) - 1)
               /\ servers' = servers]_vars

\* the first round-robin Get on a list of one entry has returned that entry
\* and left the index at 0
C32_Witness ==
    /\ Len(servers) = 1
    /\ lastGet.mode = RoundRobinSelect /\ lastGet.err = NoErr
    /\ lastGet.addr = servers[1]
    /\ window = <<servers[1]>>
    /\ index = 0
====
